---- MODULE Spec2Model ----
(***************************************************************************)
(* A model of the GitHub dashboard's metrics client (github_client.py) and *)
(* of the batch collection that drives it (data_manager.py).               *)
(*                                                                         *)
(* Python strings that the code slices (the Link header and the URLs cut   *)
(* out of it) are sequences of one-character strings, and split/strip/int  *)
(* are computed on them the way Python computes them.  A Python exception  *)
(* is the name of its class in an "exc" field ("none": no exception).      *)
(***************************************************************************)
EXTENDS Integers, Sequences, FiniteSets, TLC

----------------------------------------------------------------------------
(* Bounds of the model *)

\* the longest configured repository list
MaxRepos == 2
\* how many times the harness of the paginated counter invokes it
MaxCalls == 2

----------------------------------------------------------------------------
(* Program constants *)

\* per_page when the last-page link has no per_page parameter
DefaultPerPage == 30
\* per_page of the commit scan, and the size of a full page
CommitsPerPage == 100
\* the scan leaves its loop once page exceeds this
MaxPage == 10

----------------------------------------------------------------------------
(* Python string operations *)

Whitespace == {" "}
Digits == {"0", "1", "2", "3", "4", "5", "6", "7", "8", "9"}

DigitVal(c) ==
    CASE c = "0" -> 0 [] c = "1" -> 1 [] c = "2" -> 2 [] c = "3" -> 3
      [] c = "4" -> 4 [] c = "5" -> 5 [] c = "6" -> 6 [] c = "7" -> 7
      [] c = "8" -> 8 [] c = "9" -> 9

\* sep occurs in s at position i
MatchAt(s, sep, i) ==
    /\ i >= 1
    /\ i + Len(sep) - 1 <= Len(s)
    /\ SubSeq(s, i, i + Len(sep) - 1) = sep

\* Python: sep in s
Contains(s, sep) == \E i \in 1..Len(s) : MatchAt(s, sep, i)

\* position of the leftmost occurrence of sep in s (there is one)
FirstIndex(s, sep) ==
    CHOOSE i \in 1..Len(s) :
        /\ MatchAt(s, sep, i)
        /\ \A j \in 1..(i - 1) : ~MatchAt(s, sep, j)

\* Python: s.split(sep), the pieces between the non-overlapping occurrences
\* of sep taken from the left; always at least one piece
RECURSIVE Split(_, _)
Split(s, sep) ==
    IF ~Contains(s, sep)
    THEN <<s>>
    ELSE LET i == FirstIndex(s, sep)
         IN  <<SubSeq(s, 1, i - 1)>> \o Split(SubSeq(s, i + Len(sep), Len(s)), sep)

RECURSIVE LStrip(_, _)
LStrip(s, chars) ==
    IF s # <<>> /\ Head(s) \in chars THEN LStrip(Tail(s), chars) ELSE s

RECURSIVE RStrip(_, _)
RStrip(s, chars) ==
    IF s # <<>> /\ s[Len(s)] \in chars
    THEN RStrip(SubSeq(s, 1, Len(s) - 1), chars)
    ELSE s

\* Python: s.strip(chars), every leading and trailing character of the set
Strip(s, chars) == RStrip(LStrip(s, chars), chars)

RECURSIVE DigitsValue(_)
DigitsValue(s) ==
    IF s = <<>> THEN 0
    ELSE 10 * DigitsValue(SubSeq(s, 1, Len(s) - 1)) + DigitVal(s[Len(s)])

\* Python: int(s).  Surrounding whitespace and one sign are accepted, then
\* one or more digits; anything else is a ValueError.
PyInt(s) ==
    LET t == Strip(s, Whitespace)
        signed == t # <<>> /\ Head(t) \in {"+", "-"}
        d == IF signed THEN Tail(t) ELSE t
    IN  IF d # <<>> /\ \A i \in 1..Len(d) : d[i] \in Digits
        THEN [exc |-> "none",
              val |-> IF signed /\ Head(t) = "-" THEN 0 - DigitsValue(d)
                      ELSE DigitsValue(d)]
        ELSE [exc |-> "ValueError", val |-> 0]

----------------------------------------------------------------------------
(* Link headers the stubbed server may send *)

RelLast == <<"r", "e", "l", "=", "\"", "l", "a", "s", "t", "\"">>
RelNext == <<"r", "e", "l", "=", "\"", "n", "e", "x", "t", "\"">>
PageEq == <<"p", "a", "g", "e", "=">>
PerPageEq == <<"p", "e", "r", "_", "p", "a", "g", "e", "=">>
\* "<u?" opens a link: u stands for the scheme, host and path of the URL
Open == <<"<", "u", "?">>
\* ">; " closes the URL and introduces the relation
Close == <<">", ";", " ">>
Amp == <<"&">>
\* one more query parameter, "z=1"
Other == <<"z", "=", "1">>

\* <u?page=5&per_page=30>; rel="last"      (the format of the wire-level detail)
LinkPageFirst ==
    Open \o PageEq \o <<"5">> \o Amp \o PerPageEq \o <<"3", "0">> \o Close \o RelLast
\* <u?per_page=30&page=5>; rel="last"      (per_page before page)
LinkPerPageFirst ==
    Open \o PerPageEq \o <<"3", "0">> \o Amp \o PageEq \o <<"5">> \o Close \o RelLast
\* <u?page=5&per_page=30&z=1>; rel="last"
LinkClean ==
    Open \o PageEq \o <<"5">> \o Amp \o PerPageEq \o <<"3", "0">> \o Amp \o Other
         \o Close \o RelLast
\* <u?page=5&z=1>; rel="last"              (no per_page)
LinkNoPerPage ==
    Open \o PageEq \o <<"5">> \o Amp \o Other \o Close \o RelLast
\* <u?per_page=30&page=x>; rel="last"      (non-numeric page after per_page)
LinkBadPageLast ==
    Open \o PerPageEq \o <<"3", "0">> \o Amp \o PageEq \o <<"x">> \o Close \o RelLast
\* <u?page=x&z=1>; rel="last"              (non-numeric page)
LinkBadPage ==
    Open \o PageEq \o <<"x">> \o Amp \o Other \o Close \o RelLast
\* <u?page=5&per_page=x&z=1>; rel="last"   (non-numeric per_page)
LinkBadPerPage ==
    Open \o PageEq \o <<"5">> \o Amp \o PerPageEq \o <<"x">> \o Amp \o Other
         \o Close \o RelLast
\* <u?z=1>; rel="last"                     (malformed: no page parameter)
LinkNoPage ==
    Open \o Other \o Close \o RelLast
\* <u?page=2&z=1>; rel="next"              (no last relation)
LinkOnlyNext ==
    Open \o PageEq \o <<"2">> \o Amp \o Other \o Close \o RelNext
\* <u?page=2&z=1>; rel="next", <u?page=5&z=1>; rel="last"
LinkNextAndLast ==
    LinkOnlyNext \o <<",", " ">> \o LinkNoPerPage

----------------------------------------------------------------------------
(* HTTP: what session.get gives back *)

\* the exception classes the code names in an except clause, as sets of the
\* classes that they catch
RequestExceptions == {"ConnectionError", "HTTPError", "JSONDecodeError"}
ValueErrors == {"ValueError", "JSONDecodeError"}

\* session.get raised: the request never produced a response
Unreachable ==
    [exc |-> "ConnectionError", status |-> 0, hasLink |-> FALSE, link |-> <<>>,
     kind |-> "none", n |-> 0]

\* a response with a status, maybe a Link header, and a body: a JSON list or
\* object of n entries, a JSON number ("scalar"), or text that is not JSON
Response(status, hasLink, link, kind, n) ==
    [exc |-> "none", status |-> status, hasLink |-> hasLink, link |-> link,
     kind |-> kind, n |-> n]

\* the Link header of a response, or none
LinkOptions(links) ==
    {[hasLink |-> FALSE, link |-> <<>>]} \cup {[hasLink |-> TRUE, link |-> l] : l \in links}

\* every outcome of one request to a list endpoint; kinds: the ways in which
\* the server may fail ("exc": no response, "404", and a 200 whose body is
\* "notjson" or a "scalar")
ListResponses(links, counts, kinds) ==
    {Response(200, o.hasLink, o.link, "list", c) : o \in LinkOptions(links), c \in counts}
      \cup (IF "exc" \in kinds THEN {Unreachable} ELSE {})
      \cup (IF "404" \in kinds THEN {Response(404, FALSE, <<>>, "dict", 2)} ELSE {})
      \cup {Response(200, FALSE, <<>>, k, 0) : k \in kinds \cap {"notjson", "scalar"}}

AllKinds == {"exc", "404", "notjson", "scalar"}

\* Python: response.raise_for_status(), an HTTPError for a 4xx or 5xx status
RaiseForStatus(response) ==
    IF response.status >= 400 THEN "HTTPError" ELSE "none"

\* Python: len(response.json())
JsonLen(response) ==
    CASE response.kind \in {"list", "dict"} -> [exc |-> "none", val |-> response.n]
      [] response.kind = "scalar" -> [exc |-> "TypeError", val |-> 0]
      [] OTHER -> [exc |-> "JSONDecodeError", val |-> 0]

\* one entry of the log of requests: the URL, the query parameters given
\* beside it, and the page parameter among them (0: none)
Request(url, params, page) == [url |-> url, params |-> params, page |-> page]

\* the URL of an endpoint of a repository, f"{base_url}/repos/{repo}{path}"
Url(repo, path) == <<"u", "/repos/", repo, path>>

----------------------------------------------------------------------------
(* GitHubClient._count_from_pagination *)

\* the URL cut out of the Link header, before the first rel="last"
LastPageUrl(link_header) ==
    LET before == Split(link_header, RelLast)[1]
        segments == Split(before, <<",">>)
    IN  Strip(Strip(segments[Len(segments)], Whitespace), {"<", ">"})

\* int(last_page_url.split("page=")[1].split("&")[0])
ParseLastPage(last_page_url) ==
    LET parts == Split(last_page_url, PageEq)
    IN  IF Len(parts) < 2 THEN [exc |-> "IndexError", val |-> 0]
        ELSE PyInt(Split(parts[2], Amp)[1])

\* int(last_page_url.split("per_page=")[1].split("&")[0])
\*     if "per_page=" in last_page_url else 30
ParsePerPage(last_page_url) ==
    IF Contains(last_page_url, PerPageEq)
    THEN PyInt(Split(Split(last_page_url, PerPageEq)[2], Amp)[1])
    ELSE [exc |-> "none", val |-> DefaultPerPage]

\* the fallback: one request to base_url, every exception swallowed
CountFallback(base_url, baseResp) ==
    LET req == <<Request(base_url, <<>>, 0)>>
        items == JsonLen(baseResp)
    IN  IF baseResp.exc = "none" /\ baseResp.status = 200 /\ items.exc = "none"
        THEN [exc |-> "none", ret |-> items.val, reqs |-> req]
        ELSE [exc |-> "none", ret |-> 0, reqs |-> req]

\* response: the first response of the category; lastResp and baseResp: what
\* the server answers to the last-page request and to the base-URL request,
\* should the call make them.  The result: the exception that leaves the
\* call ("none": it returns ret) and the requests it made, in order.
CountFromPagination(response, base_url, lastResp, baseResp) ==
    IF response.hasLink /\ Contains(response.link, RelLast)
    THEN LET last_page_url == LastPageUrl(response.link)
             last_page == ParseLastPage(last_page_url)
             per_page == ParsePerPage(last_page_url)
             lastReq == <<Request(last_page_url, <<>>, 0)>>
             items == JsonLen(lastResp)
             fallback == CountFallback(base_url, baseResp)
             viaLast == [fallback EXCEPT !.reqs = lastReq \o fallback.reqs]
         IN  CASE last_page.exc # "none" -> fallback
               [] per_page.exc # "none" -> fallback
               [] lastResp.exc # "none" ->
                      [exc |-> lastResp.exc, ret |-> 0, reqs |-> lastReq]
               [] lastResp.status # 200 -> viaLast
               [] items.exc \in ValueErrors -> viaLast
               [] items.exc # "none" ->
                      [exc |-> items.exc, ret |-> 0, reqs |-> lastReq]
               [] OTHER ->
                      [exc |-> "none",
                       ret |-> (last_page.val - 1) * per_page.val + items.val,
                       reqs |-> lastReq]
    ELSE CountFallback(base_url, baseResp)

----------------------------------------------------------------------------
(* The sub-fetches of GitHubClient, as functions of what the server answers *)

\* the contributors count without its try statement: the failure of the
\* first request leaves the function
GetContributorsCountUnguarded(r, first, second) ==
    LET req1 == <<Request(Url(r, "/contributors"), <<"per_page=1">>, 0)>>
        req2 == <<Request(Url(r, "/contributors"), <<>>, 0)>>
        items == JsonLen(second)
    IN  CASE first.exc # "none" ->
                 [exc |-> first.exc, ret |-> 0, reqs |-> req1, failed |-> TRUE]
          [] RaiseForStatus(first) # "none" ->
                 [exc |-> "HTTPError", ret |-> 0, reqs |-> req1, failed |-> TRUE]
          [] OTHER ->
                 [exc |-> "none", ret |-> IF items.exc = "none" THEN items.val ELSE 0,
                  reqs |-> req1 \o req2, failed |-> items.exc # "none"]

\* GitHubClient._get_contributors_count.  first: the answer to the request
\* with per_page=1; second: the answer to the request without parameters.
\* failed: the except clause ran; exc: the exception that leaves the
\* function, and "except Exception" lets none leave.
GetContributorsCount(r, first, second) ==
    LET contributors_url == Url(r, "/contributors")
        req1 == <<Request(contributors_url, <<"per_page=1">>, 0)>>
        req2 == <<Request(contributors_url, <<>>, 0)>>
        caught(reqs) == [exc |-> "none", ret |-> 0, reqs |-> reqs, failed |-> TRUE]
        last_page == ParseLastPage(LastPageUrl(first.link))
        items == JsonLen(second)
    IN  CASE first.exc # "none" -> caught(req1)
          [] RaiseForStatus(first) # "none" -> caught(req1)
          [] first.hasLink /\ Contains(first.link, RelLast) ->
                 IF last_page.exc # "none" THEN caught(req1)
                 ELSE [exc |-> "none", ret |-> last_page.val, reqs |-> req1,
                       failed |-> FALSE]
          [] second.exc # "none" \/ RaiseForStatus(second) # "none"
               \/ items.exc # "none" -> caught(req1 \o req2)
          [] OTHER -> [exc |-> "none", ret |-> items.val, reqs |-> req1 \o req2,
                       failed |-> FALSE]

\* One state filter of a category, as _get_pull_requests_data and
\* _get_issues_data both do it: the request with per_page=1, raise_for_status,
\* then _count_from_pagination on the response and the base URL.
\* exc: the exception that reaches the sub-fetch's except clause.
StateCount(r, path, state, first, lastResp, baseResp) ==
    LET req1 == <<Request(Url(r, path), <<state, "per_page=1">>, 0)>>
        base_url == Url(r, path) \o <<"?", state>>
        count == CountFromPagination(first, base_url, lastResp, baseResp)
    IN  CASE first.exc # "none" -> [exc |-> first.exc, ret |-> 0, reqs |-> req1]
          [] RaiseForStatus(first) # "none" ->
                 [exc |-> RaiseForStatus(first), ret |-> 0, reqs |-> req1]
          [] OTHER -> [count EXCEPT !.reqs = req1 \o count.reqs]

\* the estimate rounded up instead of truncated
MergedEstimateRoundedUp(closed_count) == (4 * closed_count + 4) \div 5

\* int(closed_count * 0.8): the double nearest to 0.8 lies above 4/5 by less
\* than 5e-17, so for every count below 2^50 the product truncates to the
\* integer quotient of 4 * closed_count by 5
MergedEstimate(closed_count) == (4 * closed_count) \div 5

\* the dictionary _get_pull_requests_data returns
PrData(open_count, closed_count) ==
    [open |-> open_count, closed |-> closed_count,
     merged |-> MergedEstimate(closed_count), total |-> open_count + closed_count]

\* the dictionary _get_issues_data returns
IssuesData(open_count, closed_count) ==
    [open |-> open_count, closed |-> closed_count, total |-> open_count + closed_count]

PrZero == [open |-> 0, closed |-> 0, merged |-> 0, total |-> 0]
IssuesZero == [open |-> 0, closed |-> 0, total |-> 0]

----------------------------------------------------------------------------
(* The core query and the record *)

CoreKeys ==
    {"stargazers_count", "forks_count", "watchers_count", "open_issues_count",
     "size", "language", "created_at", "updated_at"}

\* the value the stubbed server gives a key of the repository object
CoreValue(key) ==
    CASE key = "stargazers_count" -> 42
      [] key = "forks_count" -> 3
      [] key = "watchers_count" -> 41
      [] key = "open_issues_count" -> 5
      [] key = "size" -> 10
      [] key = "language" -> "Python"
      [] key = "created_at" -> "2020-01-01"
      [] key = "updated_at" -> "2024-01-01"

\* the answer to the core query: no response at all, or a status and a body
\* that is a JSON object with some of the keys, a JSON list, or not JSON
CoreResponse(exc, status, kind, keys) ==
    [exc |-> exc, status |-> status, kind |-> kind, keys |-> keys]

CoreResponses(cores) ==
    {CoreResponse("ConnectionError", 0, "none", {})}
      \cup {CoreResponse("none", 404, "dict", {})}
      \cup {CoreResponse("none", 200, "dict", k) : k \in cores}
      \cup {CoreResponse("none", 200, k, {}) : k \in {"list", "notjson"}}

\* Python: repo_data.get(key, default) on the decoded object
Get(d, key, default) == IF key \in d.keys THEN CoreValue(key) ELSE default

\* datetime.now().isoformat(): the clock is not modelled
Now == "now"

\* str(e) of a caught exception: the library's message, which names the error
ErrorMessage(exc) == exc

\* an error record that leaves the language empty
GetErrorDataNoLanguage(r, error) ==
    [repo |-> r, stars |-> 0, forks |-> 0, watchers |-> 0, contributors |-> 0,
     open_issues |-> 0, total_issues |-> 0, closed_issues |-> 0,
     open_prs |-> 0, total_prs |-> 0, closed_prs |-> 0, merged_prs |-> 0,
     recent_commits_30d |-> 0, size_kb |-> 0, language |-> "",
     created_at |-> "", updated_at |-> "", last_fetched |-> Now,
     error |-> error]

\* GitHubClient._get_error_data
GetErrorData(r, error) ==
    [repo |-> r, stars |-> 0, forks |-> 0, watchers |-> 0, contributors |-> 0,
     open_issues |-> 0, total_issues |-> 0, closed_issues |-> 0,
     open_prs |-> 0, total_prs |-> 0, closed_prs |-> 0, merged_prs |-> 0,
     recent_commits_30d |-> 0, size_kb |-> 0, language |-> "Unknown",
     created_at |-> "", updated_at |-> "", last_fetched |-> Now,
     error |-> error]

\* the dictionary get_repo_data returns when nothing was raised
RepoRecord(r, d, contributors, recent, pr, issues) ==
    [repo |-> r,
     stars |-> Get(d, "stargazers_count", 0),
     forks |-> Get(d, "forks_count", 0),
     watchers |-> Get(d, "watchers_count", 0),
     contributors |-> contributors,
     open_issues |-> Get(d, "open_issues_count", 0),
     total_issues |-> issues.total,
     closed_issues |-> issues.closed,
     open_prs |-> pr.open,
     total_prs |-> pr.total,
     closed_prs |-> pr.closed,
     merged_prs |-> pr.merged,
     recent_commits_30d |-> recent,
     size_kb |-> Get(d, "size", 0),
     language |-> Get(d, "language", "Unknown"),
     created_at |-> Get(d, "created_at", ""),
     updated_at |-> Get(d, "updated_at", ""),
     last_fetched |-> Now]

NumericFields ==
    {"stars", "forks", "watchers", "contributors", "open_issues", "total_issues",
     "closed_issues", "open_prs", "total_prs", "closed_prs", "merged_prs",
     "recent_commits_30d", "size_kb"}

----------------------------------------------------------------------------
(* State *)

VARIABLES
    net,                \* what the stubbed server may answer (fixed by Init)
    \* one call of get_repo_data
    pc,                 \* where the call stands
    repo,               \* its argument
    repo_response,      \* the answer to the core query
    contributors_count,
    recent_commits,
    pr_data,
    issues_data,
    open_count,         \* of the category under way
    page,               \* of the commit scan: the next page to ask for
    commits,            \* the lengths of the pages decoded so far
    total_commits,
    ret,                \* <<the record returned>>, <<>> while there is none
    raised,             \* the exception that left the call
    failed,             \* the sub-fetches whose except clause ran
    log,                \* the requests of the call, in order
    \* one run of collect_and_save_data
    bpc,                \* where the run stands
    force_update,
    last_update,        \* days since the recorded update; -1: no record
    repos,              \* the configured list
    idx,                \* the position of the loop in repos
    calls,              \* the arguments of the get_repo_data calls, in order
    all_data,
    csv,                \* the rows of the file
    \* the harness of _count_from_pagination
    c_case,             \* the Link header of the first response, described
    c_last,             \* the server's answer to the last-page request
    c_base,             \* the server's answer to the base-URL request
    c_results,          \* what each invocation gave, in order
    c_contributors      \* what each call of _get_contributors_count gave

callVars ==
    <<pc, repo, repo_response, contributors_count, recent_commits, pr_data,
      issues_data, open_count, page, commits, total_commits, ret, raised,
      failed, log>>
batchVars == <<bpc, force_update, last_update, repos, idx, calls, all_data, csv>>
counterVars == <<c_case, c_last, c_base, c_results, c_contributors>>
vars == <<net, callVars, batchVars, counterVars>>

RepoIds == {"octo/demo", "owner/repo"}

\* the outcomes of a request to a list endpoint of the category ep, and of
\* the requests that follow it (whose Link header nobody reads)
ListOutcomes(ep) == ListResponses(net[ep].links, net[ep].counts, net[ep].kinds)
FollowUps(ep) == ListResponses({}, net[ep].counts, net[ep].kinds)

----------------------------------------------------------------------------
(* GitHubClient.get_repo_data *)

\* the locals of a call that has just been entered
Enter(r) ==
    /\ pc' = "core"
    /\ repo' = r
    /\ repo_response' = CoreResponse("none", 0, "none", {})
    /\ contributors_count' = 0
    /\ recent_commits' = 0
    /\ pr_data' = PrZero
    /\ issues_data' = IssuesZero
    /\ open_count' = 0
    /\ page' = 0
    /\ commits' = <<>>
    /\ total_commits' = 0
    /\ ret' = <<>>
    /\ raised' = "none"
    /\ failed' = {}
    /\ log' = <<>>

\* the call ends in the except clause of get_repo_data
ReturnError(exc) ==
    /\ pc' = "done"
    /\ ret' = <<GetErrorData(repo, ErrorMessage(exc))>>
    /\ raised' = "none"

\* the call ends with an exception that no clause of get_repo_data catches
Escape(exc) ==
    /\ pc' = "done"
    /\ ret' = <<>>
    /\ raised' = exc

\* an exception reaches the try statement of get_repo_data: the clause
\* catches a RequestException and lets any other go
Propagate(exc) ==
    IF exc \in RequestExceptions THEN ReturnError(exc) ELSE Escape(exc)

\* the core query, raise_for_status and json().  The error of a body that
\* is not JSON is requests.exceptions.JSONDecodeError (requests 2.27 and
\* later), which is a RequestException as well as a ValueError.
CoreQuery ==
    /\ pc = "core"
    /\ \E r \in CoreResponses(net.cores) :
        /\ repo_response' = r
        /\ log' = Append(log, Request(Url(repo, ""), <<>>, 0))
        /\ CASE r.exc # "none" -> Propagate(r.exc)
             [] RaiseForStatus(r) # "none" -> Propagate(RaiseForStatus(r))
             [] r.kind = "notjson" -> Propagate("JSONDecodeError")
             [] OTHER -> pc' = "contributors" /\ UNCHANGED <<ret, raised>>
    /\ UNCHANGED <<net, repo, contributors_count, recent_commits, pr_data,
                   issues_data, open_count, page, commits, total_commits,
                   failed, batchVars, counterVars>>

Contributors ==
    /\ pc = "contributors"
    /\ \E first \in ListOutcomes("contributors"), second \in FollowUps("contributors") :
        LET r == GetContributorsCount(repo, first, second)
        IN  /\ log' = log \o r.reqs
            /\ failed' = IF r.failed THEN failed \cup {"contributors"} ELSE failed
            /\ IF r.exc # "none"
               THEN Propagate(r.exc) /\ UNCHANGED contributors_count
               ELSE /\ contributors_count' = r.ret
                    /\ pc' = "commits"
                    /\ UNCHANGED <<ret, raised>>
    /\ UNCHANGED <<net, repo, repo_response, recent_commits, pr_data,
                   issues_data, open_count, page, commits, total_commits,
                   batchVars, counterVars>>

----------------------------------------------------------------------------
(* GitHubClient._get_recent_commits_count *)

CommitOutcomes == FollowUps("commits")

CommitsRequest(r, p) ==
    Request(Url(r, "/commits"),
            IF p = 0 THEN <<"since", "per_page=100">>
            ELSE <<"since", "per_page=100", "page">>, p)

\* the condition of the while loop
PageIsFull(len) == len = CommitsPerPage

\* the limit tested one page late
PastLimitLate(p) == p > MaxPage + 1

\* the safety limit tested at the end of an iteration
PastLimit(p) == p > MaxPage

\* the sub-fetch returns count to get_repo_data
CommitsReturns(count) ==
    /\ recent_commits' = count
    /\ pc' = "pulls_open"

\* the first page: no page parameter; any exception gives 0, and a page that
\* is not full ends the scan before the loop is entered
CommitsFirst ==
    /\ pc = "commits"
    /\ \E r \in CommitOutcomes :
        LET items == JsonLen(r)
        IN  /\ log' = Append(log, CommitsRequest(repo, 0))
            /\ IF r.exc # "none" \/ RaiseForStatus(r) # "none" \/ items.exc # "none"
               THEN /\ CommitsReturns(0)
                    /\ failed' = failed \cup {"commits"}
                    /\ UNCHANGED <<page, commits, total_commits>>
               ELSE /\ commits' = Append(commits, items.val)
                    /\ total_commits' = items.val
                    /\ page' = 2
                    /\ IF PageIsFull(items.val)
                       THEN pc' = "commits_scan" /\ UNCHANGED recent_commits
                       ELSE CommitsReturns(items.val)
                    /\ UNCHANGED failed
    /\ UNCHANGED <<net, repo, repo_response, contributors_count, pr_data,
                   issues_data, open_count, ret, raised, batchVars, counterVars>>

\* one iteration of the loop, up to the loop's next test: the scan ends on a
\* status other than 200, past the limit, and on a page that is not full
CommitsPage ==
    /\ pc = "commits_scan"
    /\ commits # <<>>
    /\ PageIsFull(commits[Len(commits)])
    /\ \E r \in CommitOutcomes :
        LET items == JsonLen(r)
        IN  /\ log' = Append(log, CommitsRequest(repo, page))
            /\ CASE r.exc # "none" ->
                        /\ CommitsReturns(0)
                        /\ failed' = failed \cup {"commits"}
                        /\ UNCHANGED <<page, commits, total_commits>>
                 [] r.exc = "none" /\ r.status # 200 ->
                        /\ CommitsReturns(total_commits)
                        /\ UNCHANGED <<page, commits, total_commits, failed>>
                 [] r.exc = "none" /\ r.status = 200 /\ items.exc # "none" ->
                        /\ CommitsReturns(0)
                        /\ failed' = failed \cup {"commits"}
                        /\ UNCHANGED <<page, commits, total_commits>>
                 [] OTHER ->
                        /\ commits' = Append(commits, items.val)
                        /\ total_commits' = total_commits + items.val
                        /\ page' = page + 1
                        /\ IF PastLimit(page + 1) \/ ~PageIsFull(items.val)
                           THEN CommitsReturns(total_commits + items.val)
                           ELSE UNCHANGED <<recent_commits, pc>>
                        /\ UNCHANGED failed
    /\ UNCHANGED <<net, repo, repo_response, contributors_count, pr_data,
                   issues_data, open_count, ret, raised, batchVars, counterVars>>

----------------------------------------------------------------------------
(* GitHubClient._get_pull_requests_data and _get_issues_data *)

\* the open half of a category: on an exception the category is all zero and
\* the closed half is never asked for
PullsOpen ==
    /\ pc = "pulls_open"
    /\ \E first \in ListOutcomes("pulls"), lastResp \in FollowUps("pulls"),
          baseResp \in FollowUps("pulls") :
        LET r == StateCount(repo, "/pulls", "state=open", first, lastResp, baseResp)
        IN  /\ log' = log \o r.reqs
            /\ IF r.exc # "none"
               THEN /\ pr_data' = PrZero
                    /\ failed' = failed \cup {"pulls"}
                    /\ pc' = "issues_open"
                    /\ UNCHANGED open_count
               ELSE /\ open_count' = r.ret
                    /\ pc' = "pulls_closed"
                    /\ UNCHANGED <<pr_data, failed>>
    /\ UNCHANGED <<net, repo, repo_response, contributors_count, recent_commits,
                   issues_data, page, commits, total_commits, ret, raised,
                   batchVars, counterVars>>

PullsClosed ==
    /\ pc = "pulls_closed"
    /\ \E first \in ListOutcomes("pulls"), lastResp \in FollowUps("pulls"),
          baseResp \in FollowUps("pulls") :
        LET r == StateCount(repo, "/pulls", "state=closed", first, lastResp, baseResp)
        IN  /\ log' = log \o r.reqs
            /\ IF r.exc # "none"
               THEN /\ pr_data' = PrZero
                    /\ failed' = failed \cup {"pulls"}
               ELSE /\ pr_data' = PrData(open_count, r.ret)
                    /\ UNCHANGED failed
    /\ pc' = "issues_open"
    /\ UNCHANGED <<net, repo, repo_response, contributors_count, recent_commits,
                   issues_data, open_count, page, commits, total_commits,
                   ret, raised, batchVars, counterVars>>

IssuesOpen ==
    /\ pc = "issues_open"
    /\ \E first \in ListOutcomes("issues"), lastResp \in FollowUps("issues"),
          baseResp \in FollowUps("issues") :
        LET r == StateCount(repo, "/issues", "state=open", first, lastResp, baseResp)
        IN  /\ log' = log \o r.reqs
            /\ IF r.exc # "none"
               THEN /\ issues_data' = IssuesZero
                    /\ failed' = failed \cup {"issues"}
                    /\ pc' = "assemble"
                    /\ UNCHANGED open_count
               ELSE /\ open_count' = r.ret
                    /\ pc' = "issues_closed"
                    /\ UNCHANGED <<issues_data, failed>>
    /\ UNCHANGED <<net, repo, repo_response, contributors_count, recent_commits,
                   pr_data, page, commits, total_commits, ret, raised,
                   batchVars, counterVars>>

IssuesClosed ==
    /\ pc = "issues_closed"
    /\ \E first \in ListOutcomes("issues"), lastResp \in FollowUps("issues"),
          baseResp \in FollowUps("issues") :
        LET r == StateCount(repo, "/issues", "state=closed", first, lastResp, baseResp)
        IN  /\ log' = log \o r.reqs
            /\ IF r.exc # "none"
               THEN /\ issues_data' = IssuesZero
                    /\ failed' = failed \cup {"issues"}
               ELSE /\ issues_data' = IssuesData(open_count, r.ret)
                    /\ UNCHANGED failed
    /\ pc' = "assemble"
    /\ UNCHANGED <<net, repo, repo_response, contributors_count, recent_commits,
                   pr_data, open_count, page, commits, total_commits,
                   ret, raised, batchVars, counterVars>>

\* the return statement: repo_data.get on a body that is a JSON list is an
\* AttributeError, which is no RequestException
Assemble ==
    /\ pc = "assemble"
    /\ IF repo_response.kind = "dict"
       THEN /\ ret' = <<RepoRecord(repo, repo_response, contributors_count,
                                   recent_commits, pr_data, issues_data)>>
            /\ raised' = "none"
            /\ pc' = "done"
       ELSE Escape("AttributeError")
    /\ UNCHANGED <<net, repo, repo_response, contributors_count, recent_commits,
                   pr_data, issues_data, open_count, page, commits,
                   total_commits, failed, log, batchVars, counterVars>>

GetRepoData ==
    \/ CoreQuery
    \/ Contributors
    \/ CommitsFirst
    \/ CommitsPage
    \/ PullsOpen
    \/ PullsClosed
    \/ IssuesOpen
    \/ IssuesClosed
    \/ Assemble

----------------------------------------------------------------------------
(* DataManager.collect_and_save_data *)

Headers ==
    {"repo", "stars", "forks", "watchers", "contributors", "open_issues",
     "total_issues", "closed_issues", "open_prs", "total_prs", "closed_prs",
     "merged_prs", "recent_commits_30d", "size_kb", "language", "created_at",
     "updated_at", "last_fetched"}

\* the refresh cycle, in days
RefreshDays == 7

\* DataManager.should_update: no record of an update (-1), or one that does
\* not parse (-2), or one that is 7 days old
ShouldUpdate(days) == days < 0 \/ days >= RefreshDays

\* the row _save_to_csv writes for a record: its fields that are headers
CsvRow(rec) == [k \in DOMAIN rec \cap Headers |-> rec[k]]

\* the freshness gate and load_repositories
BatchStart ==
    /\ bpc = "start"
    /\ bpc' = IF ~force_update /\ ~ShouldUpdate(last_update) THEN "uptodate"
              ELSE IF repos = <<>> THEN "norepos"
              ELSE "loop"
    /\ UNCHANGED <<net, callVars, force_update, last_update, repos, idx, calls,
                   all_data, csv, counterVars>>

\* the loop calls get_repo_data for the next repository
BatchCall ==
    /\ bpc = "loop"
    /\ idx <= Len(repos)
    /\ bpc' = "fetching"
    /\ calls' = Append(calls, repos[idx])
    /\ Enter(repos[idx])
    /\ UNCHANGED <<net, force_update, last_update, repos, idx, all_data, csv,
                   counterVars>>

\* the call is over: its record is appended, or its exception ends the run
BatchReceive ==
    /\ bpc = "fetching"
    /\ pc = "done"
    /\ IF raised # "none"
       THEN /\ bpc' = "crashed"
            /\ UNCHANGED <<idx, all_data>>
       ELSE /\ bpc' = "loop"
            /\ all_data' = Append(all_data, ret[1])
            /\ idx' = idx + 1
    /\ pc' = "idle"
    /\ UNCHANGED <<net, repo, repo_response, contributors_count, recent_commits,
                   pr_data, issues_data, open_count, page, commits,
                   total_commits, ret, raised, failed, log, force_update,
                   last_update, repos, calls, csv, counterVars>>

\* _save_to_csv(all_data) and _update_timestamp()
BatchSave ==
    /\ bpc = "loop"
    /\ idx > Len(repos)
    /\ csv' = [i \in 1..Len(all_data) |-> CsvRow(all_data[i])]
    /\ last_update' = 0
    /\ bpc' = "saved"
    /\ UNCHANGED <<net, callVars, force_update, repos, idx, calls, all_data,
                   counterVars>>

----------------------------------------------------------------------------
(* The harness of _count_from_pagination *)

\* A Link header with what it says: last: it has a rel="last" link; page and
\* per_page: the parameters of that link's URL (-1: not a number or, for
\* page, not there; DefaultPerPage: per_page not there)
LinkCase(hasLink, link, last, p, pp) ==
    [hasLink |-> hasLink, link |-> link, last |-> last, page |-> p, per_page |-> pp]

LinkCases ==
    {LinkCase(FALSE, <<>>, FALSE, -1, -1),
     LinkCase(TRUE, LinkPageFirst, TRUE, 5, 30),
     LinkCase(TRUE, LinkPerPageFirst, TRUE, 5, 30),
     LinkCase(TRUE, LinkClean, TRUE, 5, 30),
     LinkCase(TRUE, LinkNoPerPage, TRUE, 5, DefaultPerPage),
     LinkCase(TRUE, LinkNextAndLast, TRUE, 5, DefaultPerPage),
     LinkCase(TRUE, LinkBadPageLast, TRUE, -1, 30),
     LinkCase(TRUE, LinkBadPage, TRUE, -1, DefaultPerPage),
     LinkCase(TRUE, LinkBadPerPage, TRUE, 5, -1),
     LinkCase(TRUE, LinkNoPage, TRUE, -1, DefaultPerPage),
     LinkCase(TRUE, LinkOnlyNext, FALSE, -1, -1)}

\* the base URL the harness passes
CounterBaseUrl == Url("octo/demo", "/pulls") \o <<"?", "state=open">>

\* one invocation, on the same response and against the same server
CountCall ==
    /\ Len(c_results) < MaxCalls
    /\ c_results' =
           Append(c_results,
                  CountFromPagination(Response(200, c_case.hasLink, c_case.link, "list", 1),
                                      CounterBaseUrl, c_last, c_base))
    /\ UNCHANGED <<net, callVars, batchVars, c_case, c_last, c_base, c_contributors>>

\* one call of _get_contributors_count whose first request gets the same
\* response and whose second request, to the contributors URL without
\* parameters, is answered as the base URL is
ContributorsCall ==
    /\ Len(c_contributors) < MaxCalls
    /\ c_contributors' =
           Append(c_contributors,
                  GetContributorsCount("octo/demo",
                                       Response(200, c_case.hasLink, c_case.link, "list", 1),
                                       c_base))
    /\ UNCHANGED <<net, callVars, batchVars, c_case, c_last, c_base, c_results>>

----------------------------------------------------------------------------
(* Specifications *)

\* what the server may answer on the endpoints of one category
Endpoint(links, counts, kinds) == [links |-> links, counts |-> counts, kinds |-> kinds]

\* a category served in every way: with and without a last-page link, a
\* short page and (for the commits) a full one, and every kind of failure
Rich == Endpoint({LinkNoPerPage, LinkNoPage}, {2}, AllKinds)
RichCommits == Endpoint({}, {7, CommitsPerPage}, AllKinds)
\* a category that answers one short page or refuses the connection
Lean == Endpoint({}, {2}, {"exc"})
LeanCommits == Endpoint({}, {7}, {"exc"})
\* a category that always answers (the commits: full pages)
Sound == Endpoint({}, {2}, {})
SoundCommits == Endpoint({}, {CommitsPerPage}, {})

Net(contributorsEp, commitsEp, pullsEp, issuesEp, cores) ==
    [contributors |-> contributorsEp, commits |-> commitsEp, pulls |-> pullsEp,
     issues |-> issuesEp, cores |-> cores]

\* the servers of a single get_repo_data call: each serves one category in
\* every way and the other three lean
FetchNets ==
    {Net(Rich, LeanCommits, Lean, Lean, {CoreKeys, {}}),
     Net(Lean, RichCommits, Lean, Lean, {CoreKeys}),
     Net(Lean, LeanCommits, Rich, Lean, {CoreKeys}),
     Net(Lean, LeanCommits, Lean, Rich, {CoreKeys})}
\* the server of the commit scan alone
CommitsNet ==
    Net(Sound, Endpoint({}, {0, 7, 99, CommitsPerPage}, AllKinds), Sound, Sound,
        {CoreKeys})
\* the server of a batch run: the core query may go every way, of the
\* categories only the contributors may fail
BatchNet == Net(Lean, SoundCommits, Sound, Sound, {CoreKeys})

NoCall ==
    /\ pc = "idle"
    /\ repo = "none"
    /\ repo_response = CoreResponse("none", 0, "none", {})
    /\ contributors_count = 0
    /\ recent_commits = 0
    /\ pr_data = PrZero
    /\ issues_data = IssuesZero
    /\ open_count = 0
    /\ page = 0
    /\ commits = <<>>
    /\ total_commits = 0
    /\ ret = <<>>
    /\ raised = "none"
    /\ failed = {}
    /\ log = <<>>

\* a call of get_repo_data(r) that stands at position p
CallAt(r, p) ==
    /\ pc = p
    /\ repo = r
    /\ repo_response = CoreResponse("none", 0, "none", {})
    /\ contributors_count = 0
    /\ recent_commits = 0
    /\ pr_data = PrZero
    /\ issues_data = IssuesZero
    /\ open_count = 0
    /\ page = 0
    /\ commits = <<>>
    /\ total_commits = 0
    /\ ret = <<>>
    /\ raised = "none"
    /\ failed = {}
    /\ log = <<>>

NoBatch ==
    /\ bpc = "none"
    /\ force_update = FALSE
    /\ last_update = -1
    /\ repos = <<>>
    /\ idx = 1
    /\ calls = <<>>
    /\ all_data = <<>>
    /\ csv = <<>>

NoCounter ==
    /\ c_case = LinkCase(FALSE, <<>>, FALSE, -1, -1)
    /\ c_last = Unreachable
    /\ c_base = Unreachable
    /\ c_results = <<>>
    /\ c_contributors = <<>>

\* one call of get_repo_data on a constructed client
Init ==
    /\ net \in FetchNets
    /\ \E r \in RepoIds : CallAt(r, "core")
    /\ NoBatch
    /\ NoCounter

Next == GetRepoData

Spec == Init /\ [][Next]_vars

\* one call of _get_recent_commits_count
InitCommits ==
    /\ net = CommitsNet
    /\ \E r \in RepoIds : CallAt(r, "commits")
    /\ NoBatch
    /\ NoCounter

NextCommits ==
    \/ CommitsFirst
    \/ CommitsPage

SpecCommits == InitCommits /\ [][NextCommits]_vars

\* invocations of _count_from_pagination on one response
InitCounter ==
    /\ net = CommitsNet
    /\ NoCall
    /\ NoBatch
    /\ c_case \in LinkCases
    /\ c_last \in ListResponses({}, {0, 7}, AllKinds)
    /\ c_base \in ListResponses({}, {0, 2}, AllKinds)
    /\ c_results = <<>>
    /\ c_contributors = <<>>

NextCounter == CountCall

SpecCounter == InitCounter /\ [][NextCounter]_vars

\* _count_from_pagination and _get_contributors_count side by side, on one
\* response and against one server
NextCompare ==
    \/ CountCall
    \/ ContributorsCall

SpecCompare == InitCounter /\ [][NextCompare]_vars

\* one run of collect_and_save_data
InitBatch ==
    /\ net = BatchNet
    /\ NoCall
    /\ bpc = "start"
    /\ force_update \in BOOLEAN
    /\ last_update \in {-1, 0, RefreshDays}
    /\ repos \in UNION {[1..n -> RepoIds] : n \in 0..MaxRepos}
    /\ idx = 1
    /\ calls = <<>>
    /\ all_data = <<>>
    /\ csv = <<>>
    /\ NoCounter

NextBatch ==
    \/ BatchStart
    \/ BatchCall
    \/ GetRepoData
    \/ BatchReceive
    \/ BatchSave

SpecBatch == InitBatch /\ [][NextBatch]_vars

----------------------------------------------------------------------------
(* Properties of get_repo_data *)

\* the call is over and returned this record
Returned == pc = "done" /\ ret # <<>>
Rec == ret[1]

\* the core query was answered with a 2xx status and a JSON object
CoreSucceeded ==
    /\ pc # "core"
    /\ repo_response.exc = "none"
    /\ repo_response.status = 200
    /\ repo_response.kind = "dict"

\* the core query got no response, or one with a 4xx or 5xx status
CoreFailed ==
    \/ repo_response.exc # "none"
    \/ repo_response.status >= 400

AllZero(rec) == \A f \in NumericFields : rec[f] = 0

\* C1: whatever the server answers to the core query and to the requests of
\* the sub-fetches, a call of get_repo_data that is over has returned
\* exactly one record and has let no exception out.
C1_NeverRaises ==
    pc = "done" => (raised = "none" /\ Len(ret) = 1)

\* C2: in every record get_repo_data returns, total_issues is the sum of
\* the record's open_issues and closed_issues.
C2_IssueTotal ==
    Returned => Rec.total_issues = Rec.open_issues + Rec.closed_issues

\* C3: in every record get_repo_data returns, total_prs is the sum of
\* open_prs and closed_prs, and merged_prs is closed_prs * 4/5 rounded down
\* (the integer m with 5m <= 4 * closed_prs < 5(m + 1)).
C3_PullTotals ==
    Returned =>
        /\ Rec.total_prs = Rec.open_prs + Rec.closed_prs
        /\ 5 * Rec.merged_prs <= 4 * Rec.closed_prs
        /\ 4 * Rec.closed_prs < 5 * (Rec.merged_prs + 1)

\* a record whose counts came through the last-page link and the fallback:
\* 2 open, 4 * 30 + 2 closed, of which 97 count as merged
C3_Witness ==
    /\ Returned
    /\ Rec.open_prs = 2
    /\ Rec.closed_prs = 122
    /\ Rec.merged_prs = 97
    /\ Rec.total_prs = 124

\* the record is the error record of the data model
IsErrorRecord(rec) ==
    /\ "error" \in DOMAIN rec
    /\ rec.error # ""
    /\ AllZero(rec)
    /\ rec.language = "Unknown"

RequestsTo(path) == {i \in 1..Len(log) : log[i].url = Url(repo, path)}

\* every request of the set a comes before every request of the set b
Before(a, b) == \A i \in a, j \in b : i < j

\* C5 (the record): after a core query that succeeded the call returns a
\* record without an error field, whose stars, forks, watchers and size_kb
\* are the core's; all four sub-fetches made their requests, in the order
\* contributors, commits, pulls, issues; the fields of a sub-fetch that
\* failed are 0 and those of the others are the sub-fetch's own result.
C5_Record ==
    (pc = "done" /\ CoreSucceeded) =>
        /\ raised = "none"
        /\ Len(ret) = 1
        /\ "error" \notin DOMAIN Rec
        /\ Rec.stars = Get(repo_response, "stargazers_count", 0)
        /\ Rec.forks = Get(repo_response, "forks_count", 0)
        /\ Rec.watchers = Get(repo_response, "watchers_count", 0)
        /\ Rec.size_kb = Get(repo_response, "size", 0)
        /\ \A path \in {"/contributors", "/commits", "/pulls", "/issues"} :
               RequestsTo(path) # {}
        /\ Before(RequestsTo("/contributors"), RequestsTo("/commits"))
        /\ Before(RequestsTo("/commits"), RequestsTo("/pulls"))
        /\ Before(RequestsTo("/pulls"), RequestsTo("/issues"))
        /\ Rec.contributors = IF "contributors" \in failed THEN 0 ELSE contributors_count
        /\ Rec.recent_commits_30d = IF "commits" \in failed THEN 0 ELSE recent_commits
        /\ <<Rec.open_prs, Rec.closed_prs, Rec.merged_prs, Rec.total_prs>> =
               IF "pulls" \in failed THEN <<0, 0, 0, 0>>
               ELSE <<pr_data.open, pr_data.closed, pr_data.merged, pr_data.total>>
        /\ <<Rec.closed_issues, Rec.total_issues>> =
               IF "issues" \in failed THEN <<0, 0>>
               ELSE <<issues_data.closed, issues_data.total>>

\* C5 (the steps): a step of one sub-fetch, failing or not, leaves the core's
\* answer and the results of the other three sub-fetches as they were, and
\* ends the call neither with an error record nor with an exception.
C5_Step ==
    /\ pc = "contributors" =>
           UNCHANGED <<repo_response, recent_commits, pr_data, issues_data, ret, raised>>
    /\ pc \in {"commits", "commits_scan"} =>
           UNCHANGED <<repo_response, contributors_count, pr_data, issues_data, ret, raised>>
    /\ pc \in {"pulls_open", "pulls_closed"} =>
           UNCHANGED <<repo_response, contributors_count, recent_commits, issues_data,
                       ret, raised>>
    /\ pc \in {"issues_open", "issues_closed"} =>
           UNCHANGED <<repo_response, contributors_count, recent_commits, pr_data,
                       ret, raised>>

\* C5: a failure inside one sub-fetch zeroes that sub-fetch's fields only.
C5_Frame == [](C5_Record) /\ [][C5_Step]_vars

\* only the contributors failed: stars, pull requests and issues are there
C5_Witness ==
    /\ pc = "done"
    /\ CoreSucceeded
    /\ failed = {"contributors"}
    /\ Rec.contributors = 0
    /\ Rec.stars = 42
    /\ Rec.recent_commits_30d = 7
    /\ Rec.total_prs = 4
    /\ Rec.total_issues = 4

----------------------------------------------------------------------------
(* Properties of _count_from_pagination *)

\* the request got a response with status 200
Succeeded(response) == response.exc = "none" /\ response.status = 200

\* the request got status 200 and a JSON list
GaveList(response) == Succeeded(response) /\ response.kind = "list"

\* the Link header has a rel="last" link with a numeric page and a per_page
\* that is numeric or left out
WellFormedLast == c_case.last /\ c_case.page >= 0 /\ c_case.per_page >= 0

BaseRequest == Request(CounterBaseUrl, <<>>, 0)

\* C6: with a rel="last" link of numeric page=P (and per_page=M, 30 when
\* left out) and a last page that is fetched with n items, an invocation
\* makes one request, not to the base URL, and returns (P - 1) * M + n.
C6_LastPageCount ==
    \A i \in 1..Len(c_results) :
        (WellFormedLast /\ GaveList(c_last)) =>
            /\ c_results[i].exc = "none"
            /\ Len(c_results[i].reqs) = 1
            /\ c_results[i].reqs[1] # BaseRequest
            /\ c_results[i].ret = (c_case.page - 1) * c_case.per_page + c_last.n

\* C9: without a rel="last" link, or with one whose URL has no page or a
\* page or per_page that is no number, every invocation returns without an
\* exception after a single request, to the base URL, and when that request
\* gives K items every invocation returns K.
C9_FallbackCount ==
    \A i \in 1..Len(c_results) :
        ~WellFormedLast =>
            /\ c_results[i].exc = "none"
            /\ c_results[i].reqs = <<BaseRequest>>
            /\ GaveList(c_base) => c_results[i].ret = c_base.n

\* the requests of an invocation that got status 200
AnySucceeded(result) ==
    \E j \in 1..Len(result.reqs) :
        IF result.reqs[j] = BaseRequest THEN Succeeded(c_base) ELSE Succeeded(c_last)

\* the request was refused, or answered with a status other than 200, or
\* answered with a JSON list
FailedOrList(response) == ~Succeeded(response) \/ response.kind = "list"

\* C10: when each of the last-page request and the base-URL request either
\* fails (no response, or a status other than 200) or gives a list, no
\* invocation lets an exception out, and an invocation none of whose
\* requests succeeded returns 0.
C10_NoPropagation ==
    \A i \in 1..Len(c_results) :
        (FailedOrList(c_last) /\ FailedOrList(c_base)) =>
            /\ c_results[i].exc = "none"
            /\ ~AnySucceeded(c_results[i]) => c_results[i].ret = 0

\* C12: on the same first response and against the same server, a call of
\* _get_contributors_count returns what an invocation of
\* _count_from_pagination that returns does: (page - 1) * per_page + the
\* items of the last page when the rel="last" link parses, the items of the
\* single fallback request when there is no such link or it does not parse.
C12_SameAsCounter ==
    \A i \in 1..Len(c_contributors) :
        /\ c_contributors[i].exc = "none"
        /\ \A j \in 1..Len(c_results) :
               c_results[j].exc = "none" =>
                   c_contributors[i].ret = c_results[j].ret

----------------------------------------------------------------------------
(* Properties of _get_recent_commits_count *)

\* the scan is over
ScanReturned == pc = "pulls_open"

\* every request of the scan was answered with status 200 and a list
AllPagesDecoded == Len(commits) = Len(log)

RECURSIVE Sum(_)
Sum(sizes) == IF sizes = <<>> THEN 0 ELSE Head(sizes) + Sum(Tail(sizes))

\* C7: the scan asks for the pages 1, 2, 3, ... in this order (the first
\* request names no page) and never makes more than 10 requests; while it
\* runs every page so far was full; a scan all of whose requests were
\* answered ends on the first page that is not full, or on the 10th page,
\* and returns the sum of the sizes of its pages: 1000 after 10 full pages.
C7_BoundedScan ==
    /\ Len(log) <= 10
    /\ \A i \in 1..Len(log) :
           /\ log[i].url = Url(repo, "/commits")
           /\ log[i].page = IF i = 1 THEN 0 ELSE i
    /\ \A i \in 1..(Len(commits) - 1) : commits[i] = 100
    /\ pc = "commits_scan" => (commits # <<>> /\ commits[Len(commits)] = 100)
    /\ (ScanReturned /\ AllPagesDecoded) =>
           /\ commits # <<>>
           /\ recent_commits = Sum(commits)
           /\ commits[Len(commits)] = 100 =>
                  (Len(log) = 10 /\ recent_commits = 1000)

\* ten full pages: 1000 commits, and the scan is over
C7_Witness ==
    /\ ScanReturned
    /\ Len(log) = 10
    /\ log[10].page = 10
    /\ Len(commits) = 10
    /\ recent_commits = 1000

\* C11: a scan that is over and one of whose requests failed (it was
\* refused, or answered with a status other than 200, or its body was not a
\* list), on the first page or on a later one, returns 0, never the sum of
\* the pages before the failure.
C11_NoPartialSum ==
    (ScanReturned /\ ~AllPagesDecoded) => recent_commits = 0

----------------------------------------------------------------------------
(* Properties of collect_and_save_data *)

\* C8: a run over a non-empty list that is over has called get_repo_data
\* once for each configured repository, in list order, and has handed the
\* writer one record for each, in list order; while it runs, the calls made
\* so far are the head of the list.
C8_OncePerRepo ==
    /\ bpc \in {"loop", "fetching"} =>
           (Len(calls) <= Len(repos) /\ calls = SubSeq(repos, 1, Len(calls)))
    /\ bpc \in {"saved", "crashed"} =>
           /\ calls = repos
           /\ Len(all_data) = Len(repos)
           /\ \A i \in 1..Len(repos) : all_data[i].repo = repos[i]
           /\ Len(csv) = Len(repos)

====
